---- MODULE Spec2Model ----
(***************************************************************************)
(* The Timeline view of src/components/Timeline.tsx, rendered by the       *)
(* per-user page of src/pages/[name].tsx.                                   *)
(*                                                                         *)
(* The state is the React state of the mounted component (raw and          *)
(* debounced scroll position, the pending debounce timer, the scroll       *)
(* listener), the query cache of the data-fetching client, the page        *)
(* fetches and like/unlike mutations in flight, and a log of the page      *)
(* requests sent to the remote API.  One action is one browser event,      *)
(* timer expiry or network completion together with the re-render and the  *)
(* effects it causes (the browser runs them on one thread, to completion). *)
(*                                                                         *)
(* The data-fetching client is @tanstack/react-query 4 behind tRPC 10 (the *)
(* key shape of updateCache is theirs): an infinite query keeps            *)
(* {pages, pageParams} under its key, fetchNextPage appends one page to    *)
(* the pages the cache held when the fetch started, setQueryData replaces  *)
(* the entry and leaves a running fetch running.  Relative times are       *)
(* rendered by dayjs with its relativeTime plugin and the locale table of  *)
(* the module.                                                             *)
(***************************************************************************)
EXTENDS Bags, FiniteSets, Integers, Sequences, TLC

VARIABLES
    mounted,          \* the Timeline component is on screen
    routeName,        \* router.query.name of the page
    scrollPosition,   \* useScrollPosition: the raw state
    debauncedValue,   \* useDebounce: the committed state
    timers,           \* pending setTimeout callbacks of useDebounce, by captured value
    listeners,        \* number of registered "scroll" listeners
    cache,            \* the query cache: query key -> InfiniteData
    inflight,         \* page fetches in flight (fetch contexts, with what set each off)
    requests,         \* log of tweet.timeline requests sent
    received,         \* tweet ids and next cursor of each page, in order of arrival
    mutations,        \* bag of like/unlike mutations in flight
    failures,         \* number of failed page fetches so far
    thrown,           \* an onSuccess callback has thrown
    createdAt,        \* tweet.createdAt, in seconds after the moment of rendering
    fromNowText       \* the text dayjs(tweet.createdAt).fromNow() rendered

\* the timestamp of a tweet and its rendering
timeVars == <<createdAt, fromNowText>>

vars == <<mounted, routeName, scrollPosition, debauncedValue, timers, listeners,
          cache, inflight, requests, received, mutations, failures, thrown,
          timeVars>>

----------------------------------------------------------------------------
(* Bounds of the model *)

\* number of posts the remote feed can hold
FeedLen == 2
\* most like/unlike mutations in flight at once
MaxMutations == 1
\* most page fetches that fail in one run
MaxFailures == 1

\* route parameter values: a user name, or absent
Undefined == "undefined"
Names == {"alice"}
\* the signed-in user, whose id the like and unlike mutations answer with
SessionUsers == {"u1"}
\* document geometries (scrollHeight, clientHeight) and the scroll offsets
\* the scroll events report (90% and 95% of the scrollable distance)
Documents == {[scrollHeight |-> 120, clientHeight |-> 100]}
ScrollTops == {18, 19}

\* the ages a timestamp is drawn from: every second up to MaxSeconds, every
\* half minute up to MaxHalfMinutes of them, every half hour up to
\* MaxHalfHours of them; each in the past and in the future
MaxSeconds == 150
MaxHalfMinutes == 200
MaxHalfHours == 192
Ages ==
    (0..MaxSeconds) \cup {30 * k : k \in 0..MaxHalfMinutes}
                   \cup {1800 * k : k \in 0..MaxHalfHours}
CreatedAts == Ages \cup {0 - a : a \in Ages}
\* no text rendered yet
NotRendered == ""
\* the documents a scroll handler may meet: any viewport height from
\* ViewportHeights and any scrollable distance from 0 (a document that fits
\* its viewport) to MaxScrollable
MaxScrollable == 12
ViewportHeights == {1, 4}
AnyDocuments ==
    {[scrollHeight |-> c + h, clientHeight |-> c] :
        c \in ViewportHeights, h \in 0..MaxScrollable}

----------------------------------------------------------------------------
(* Scroll percentage: a JavaScript number, kept as a reduced fraction       *)
(* <<n, d>>; <<0, 0>> is NaN (0 / 0) and <<1, 0>> is Infinity (x / 0).      *)

RECURSIVE GCD(_, _)
GCD(a, b) == IF b = 0 THEN a ELSE GCD(b, a % b)

NaN == <<0, 0>>
Infinity == <<1, 0>>
Number(n) == <<n, 1>>

\* (winScroll / height) * 100
Percent(winScroll, height) ==
    IF height = 0
    THEN IF winScroll = 0 THEN NaN ELSE Infinity
    ELSE LET g == GCD(winScroll * 100, height)
         IN  <<(winScroll * 100) \div g, height \div g>>

\* x > k for a JavaScript number x and an integer k (NaN compares false)
GreaterThan(x, k) ==
    IF x[2] = 0 THEN x[1] > 0 ELSE x[1] > k * x[2]

\* handleScroll: the value it hands to setScrollPosition
handleScroll(doc, bodyScrollTop, docScrollTop) ==
    LET height    == doc.scrollHeight - doc.clientHeight
        winScroll == IF bodyScrollTop # 0 THEN bodyScrollTop ELSE docScrollTop
    IN  Percent(winScroll, height)

\* useDebounce without the clearTimeout of its cleanup
ArmTimerNoClear(pending, value) == pending \cup {value}

\* useDebounce's effect on a changed value: the cleanup clears the timer of
\* the previous value, then a timer capturing the new value is set
ArmTimer(pending, value) == {value}

----------------------------------------------------------------------------
(* The remote feed *)

\* page size the Timeline asks for
TimelineLimit == 10

TweetId(i) == "t" \o ToString(i)
IndexOf(id) == CHOOSE i \in 1..(FeedLen + 1) : TweetId(i) = id

Min(a, b) == IF a < b THEN a ELSE b

\* the feed: its posts with an even number are liked by another user when
\* the page that holds them is read, the others by nobody
ServerLikes(i) == IF i % 2 = 0 THEN <<"u2">> ELSE <<>>

\* a post as the API returns it
Post(i) ==
    [id |-> TweetId(i), author |-> [name |-> "alice"], likes |-> ServerLikes(i)]

\* The pages the server may answer to a request with cursor pageParam: the
\* next k posts of the feed (at most the limit asked for) and either no
\* cursor (the feed ends there) or, after at least one post, the id of the
\* post that followed them when the page was read.  That post may be gone
\* by the next request (the id after the last post of the feed), and the
\* page of its cursor is then empty; so is the first page of an empty feed.
ServerPages(pageParam) ==
    LET start == IF pageParam = Undefined THEN 1 ELSE IndexOf(pageParam)
        most  == Min(TimelineLimit, FeedLen - start + 1)
    IN  UNION {
          { [tweets |-> [j \in 1..k |-> Post(start + j - 1)],
             nextCursor |-> nc] :
              nc \in {Undefined} \cup (IF k > 0 THEN {TweetId(start + k)} ELSE {}) }
          : k \in (IF pageParam = Undefined \/ most = 0 THEN 0 ELSE 1)..most }

----------------------------------------------------------------------------
(* Relative time: dayjs(tweet.createdAt).fromNow() under the locale table   *)
(* of the module.  Times are whole seconds; a format string is kept as the  *)
(* sequence of its pieces, "%d" and "%s" being the places replace() fills.  *)

\* the locale table with the seconds entry of the stock English locale
relativeTimeStockSeconds ==
    [future |-> <<"in ", "%s">>, past |-> <<"%s", " ago">>,
     s |-> <<"a few seconds">>, m |-> <<"1m">>, mm |-> <<"%d", "m">>,
     h |-> <<"1h">>, hh |-> <<"%d", "h">>, d |-> <<"1d">>, dd |-> <<"%d", "d">>,
     M |-> <<"1M">>, MM |-> <<"%d", "M">>, y |-> <<"1y">>, yy |-> <<"%d", "y">>]

\* dayjs.updateLocale("en", {relativeTime: ...})
relativeTime ==
    [future |-> <<"in ", "%s">>, past |-> <<"%s", " ago">>,
     s |-> <<"1m">>, m |-> <<"1m">>, mm |-> <<"%d", "m">>,
     h |-> <<"1h">>, hh |-> <<"%d", "h">>, d |-> <<"1d">>, dd |-> <<"%d", "d">>,
     M |-> <<"1M">>, MM |-> <<"%d", "M">>, y |-> <<"1y">>, yy |-> <<"%d", "y">>]

\* the thresholds of the relativeTime plugin up to days: the key l applies
\* while the rounded count is at most r; d is the length of the unit the
\* count is taken in (0: the count of the previous row is kept).  Months and
\* years are counted by the calendar and lie beyond the ages drawn here.
Thresholds ==
    << [l |-> "s",  r |-> 44, d |-> 1],
       [l |-> "m",  r |-> 89, d |-> 0],
       [l |-> "mm", r |-> 44, d |-> 60],
       [l |-> "h",  r |-> 89, d |-> 0],
       [l |-> "hh", r |-> 21, d |-> 3600],
       [l |-> "d",  r |-> 35, d |-> 0],
       [l |-> "dd", r |-> 25, d |-> 86400] >>

Abs(x) == IF x < 0 THEN 0 - x ELSE x

\* Math.round(seconds / unit) for seconds >= 0
Round(seconds, unit) == (2 * seconds + unit) \div (2 * unit)

\* the loop of the plugin from row i on: the key and the count it ends with
RECURSIVE RelativeUnit(_, _, _)
RelativeUnit(seconds, i, carried) ==
    IF i > Len(Thresholds) THEN [l |-> "yy", abs |-> carried]
    ELSE LET t   == Thresholds[i]
             abs == IF t.d # 0 THEN Round(seconds, t.d) ELSE carried
         IN  IF abs <= t.r
             THEN [l |-> IF abs <= 1 /\ i > 1 THEN Thresholds[i - 1].l ELSE t.l,
                   abs |-> abs]
             ELSE RelativeUnit(seconds, i + 1, abs)

RECURSIVE Join(_)
Join(pieces) == IF pieces = <<>> THEN "" ELSE pieces[1] \o Join(Tail(pieces))

\* format.replace(hole, text): the first occurrence is replaced
RECURSIVE Replace(_, _, _)
Replace(format, hole, text) ==
    IF format = <<>> THEN ""
    ELSE IF format[1] = hole THEN text \o Join(Tail(format))
    ELSE format[1] \o Replace(Tail(format), hole, text)

\* fromNow() of a timestamp diff seconds after now (negative: in the past)
fromNow(diff) ==
    LET u        == RelativeUnit(Abs(diff), 1, 0)
        out      == Replace(relativeTime[u.l], "%d", ToString(u.abs))
        isFuture == diff > 0
    IN  Replace(IF isFuture THEN relativeTime.future ELSE relativeTime.past,
                "%s", out)

----------------------------------------------------------------------------
(* The query cache *)

EmptyCache == [k \in {} |-> {}]

\* [name].tsx: the props the page gives to Timeline
UsePageProps(name) == [where |-> [author |-> [name |-> name]]]

\* Timeline: the input of its useInfiniteQuery call; the component declares
\* no parameters and reads no props
TimelineInput(props) == [limit |-> TimelineLimit]

\* the key tRPC gives the infinite query of an input
QueryKey(input) ==
    [path |-> <<"tweet", "timeline">>, input |-> input, type |-> "infinite"]

\* the key updateCache writes
PatchKey ==
    [path |-> <<"tweet", "timeline">>, input |-> [limit |-> 10], type |-> "infinite"]

TimelineKey == QueryKey(TimelineInput(UsePageProps(routeName)))

\* lastPage.nextCursor, undefined when the page has no such field
getNextPageParam(lastPage) ==
    IF "nextCursor" \in DOMAIN lastPage THEN lastPage.nextCursor ELSE Undefined

\* hasNextPage of the query result, as a truth value: undefined (falsy)
\* while the cache has no data, else whether the last page has a next cursor
hasNextPage(c, key) ==
    /\ key \in DOMAIN c
    /\ getNextPageParam(c[key].pages[Len(c[key].pages)]) # Undefined

isFetching(fetches) == fetches # {}

\* a flattening that puts the newest page first
RECURSIVE flatMapNewestFirst(_)
flatMapNewestFirst(pages) ==
    IF pages = <<>> THEN <<>>
    ELSE flatMapNewestFirst(Tail(pages)) \o pages[1].tweets

RECURSIVE flatMap(_)
flatMap(pages) ==
    IF pages = <<>> THEN <<>>
    ELSE pages[1].tweets \o flatMap(Tail(pages))

\* data?.pages.flatMap((page) => page.tweets) ?? []
tweets(c, key) == IF key \in DOMAIN c THEN flatMap(c[key].pages) ELSE <<>>

\* an updater that forgets to compare the tweet's id
PatchEveryTweet(tweet, variables, data, action) ==
    [tweet EXCEPT !.likes = IF action = "like" THEN <<data.userId>> ELSE <<>>]

\* the updater updateCache gives to setQueryData
PatchTweet(tweet, variables, data, action) ==
    IF tweet.id = variables.tweetId
    THEN [tweet EXCEPT !.likes = IF action = "like" THEN <<data.userId>> ELSE <<>>]
    ELSE tweet

PatchPage(page, variables, data, action) ==
    [tweets |-> [j \in 1..Len(page.tweets) |->
                    PatchTweet(page.tweets[j], variables, data, action)]]

\* a patch that reaches every cached timeline, whatever its input
updateCacheEveryKey(c, variables, data, action) ==
    [k \in DOMAIN c |->
        [c[k] EXCEPT !.pages = [i \in 1..Len(@) |->
                                  PatchPage(@[i], variables, data, action)]]]

\* the updater is handed undefined when the cache has no entry under the
\* key, and newData.pages throws a TypeError
updateCacheThrows(c) == PatchKey \notin DOMAIN c

\* updateCache; with no entry under the key the updater reads .pages of
\* undefined and throws, and the cache is left as it was
updateCache(c, variables, data, action) ==
    IF PatchKey \in DOMAIN c
    THEN [c EXCEPT ![PatchKey] =
            [@ EXCEPT !.pages = [i \in 1..Len(@) |->
                                    PatchPage(@[i], variables, data, action)]]]
    ELSE c

----------------------------------------------------------------------------
(* Rendering *)

\* a liked test that needs two likes
hasLikedTwice(tweet) == Len(tweet.likes) > 1

hasLiked(tweet) == Len(tweet.likes) > 0
HeartColor(tweet) == IF hasLiked(tweet) THEN "red" ELSE "gray"

\* the tweets on screen
Rendered == IF mounted THEN tweets(cache, TimelineKey) ELSE <<>>

\* {!hasNextPage && <p>No more items to load</p>}
ShowsNoMoreItems == mounted /\ ~hasNextPage(cache, TimelineKey)

----------------------------------------------------------------------------
(* The pagination effect of Timeline *)

\* the percentage the debounced scroll position must exceed
ScrollThreshold == 90

\* the condition with >= in place of >
ShouldFetchAtThreshold(scrolled, nextPage, fetching) ==
    /\ GreaterThan(scrolled, ScrollThreshold) \/ scrolled = Number(ScrollThreshold)
    /\ nextPage
    /\ ~fetching

\* the condition without the isFetching test
ShouldFetchWhileFetching(scrolled, nextPage, fetching) ==
    GreaterThan(scrolled, ScrollThreshold) /\ nextPage

\* the condition under which the effect calls fetchNextPage
ShouldFetch(scrolled, nextPage, fetching) ==
    GreaterThan(scrolled, ScrollThreshold) /\ nextPage /\ ~fetching

\* an effect that does not depend on isFetching
DepsWithoutFetching(deb, c, fetches) ==
    \/ deb # debauncedValue
    \/ hasNextPage(c, TimelineKey) # hasNextPage(cache, TimelineKey)

\* an effect that depends on the scroll position alone
ScrollDepChanged(deb, c, fetches) == deb # debauncedValue

\* the effect runs after a render in which one of its dependencies changed
DepsChanged(deb, c, fetches) ==
    \/ deb # debauncedValue
    \/ hasNextPage(c, TimelineKey) # hasNextPage(cache, TimelineKey)
    \/ isFetching(fetches) # isFetching(inflight)

\* fetchNextPage: the fetch starts from the pages the cache holds now and
\* asks for the page after the last of them
FetchContext(c, req, cause) ==
    LET d == c[TimelineKey]
    IN  [req |-> req,
         cause |-> cause,
         pageParam |-> getNextPageParam(d.pages[Len(d.pages)]),
         oldPages |-> d.pages,
         oldPageParams |-> d.pageParams]

Request(pageParam) ==
    [input |-> TimelineInput(UsePageProps(routeName)),
     pageParam |-> pageParam, status |-> "pending"]

\* the render after a state change and the effect that follows it: m, deb,
\* c, fetches and reqs are the values the change leaves, cause names the change
RenderAndEffect(cause, m, deb, c, fetches, reqs) ==
    IF /\ m
       /\ DepsChanged(deb, c, fetches)
       /\ ShouldFetch(deb, hasNextPage(c, TimelineKey), isFetching(fetches))
    THEN LET ctx == FetchContext(c, Len(reqs) + 1, cause)
         IN  /\ inflight' = fetches \cup {ctx}
             /\ requests' = Append(reqs, Request(ctx.pageParam))
    ELSE /\ inflight' = fetches
         /\ requests' = reqs

----------------------------------------------------------------------------
(* The state after the page has rendered Timeline for the first time: the  *)
(* first page is being fetched, the scroll listener is registered and the  *)
(* debounce timer of the initial value 0 is pending.                       *)

InitWith(names) ==
    /\ mounted = TRUE
    /\ routeName \in names
    /\ scrollPosition = Number(0)
    /\ debauncedValue = Number(0)
    /\ timers = ArmTimer({}, Number(0))
    /\ listeners = 1
    /\ cache = EmptyCache
    /\ inflight = {[req |-> 1, cause |-> "mount", pageParam |-> Undefined,
                    oldPages |-> <<>>, oldPageParams |-> <<>>]}
    /\ requests = <<Request(Undefined)>>
    /\ received = <<>>
    /\ mutations = EmptyBag
    /\ failures = 0
    /\ thrown = FALSE

\* a scroll event: handleScroll sets the raw position; a changed value
\* re-renders and re-arms the debounce timer
Scroll(doc, bodyScrollTop, docScrollTop) ==
    /\ listeners > 0
    /\ LET scrolled == handleScroll(doc, bodyScrollTop, docScrollTop)
       IN  /\ scrollPosition' = scrolled
           /\ timers' = IF scrolled # scrollPosition
                        THEN ArmTimer(timers, scrolled) ELSE timers
    /\ UNCHANGED <<thrown, timeVars>>
    /\ UNCHANGED <<mounted, routeName, debauncedValue, listeners, cache,
                   inflight, requests, received, mutations, failures>>

\* a debounce timer expires: its value is committed
TimerFire(value) ==
    /\ value \in timers
    /\ timers' = timers \ {value}
    /\ debauncedValue' = value
    /\ RenderAndEffect("commit", mounted, value, cache, inflight, requests)
    /\ UNCHANGED <<thrown, timeVars>>
    /\ UNCHANGED <<mounted, routeName, scrollPosition, listeners, cache,
                   received, mutations, failures>>

\* a page fetch succeeds: the page is appended to the pages the fetch
\* started from and the result replaces the cache entry
FetchSuccess(ctx, page) ==
    /\ ctx \in inflight
    /\ page \in ServerPages(ctx.pageParam)
    /\ LET c == [k \in DOMAIN cache \cup {TimelineKey} |->
                   IF k = TimelineKey
                   THEN [pages |-> Append(ctx.oldPages, page),
                         pageParams |-> Append(ctx.oldPageParams, ctx.pageParam)]
                   ELSE cache[k]]
           reqs == [requests EXCEPT ![ctx.req].status = "success"]
       IN  /\ cache' = c
           /\ RenderAndEffect("fetched", mounted, debauncedValue, c, inflight \ {ctx}, reqs)
    /\ received' = Append(received,
                          [tweetIds |-> [j \in 1..Len(page.tweets) |-> page.tweets[j].id],
                           nextCursor |-> page.nextCursor])
    /\ UNCHANGED <<thrown, timeVars>>
    /\ UNCHANGED <<mounted, routeName, scrollPosition, debauncedValue, timers,
                   listeners, mutations, failures>>

\* a page fetch fails for good: the cache keeps its data
FetchError(ctx) ==
    /\ ctx \in inflight
    /\ failures < MaxFailures
    /\ failures' = failures + 1
    /\ RenderAndEffect("failed", mounted, debauncedValue, cache, inflight \ {ctx},
                       [requests EXCEPT ![ctx.req].status = "error"])
    /\ UNCHANGED <<thrown, timeVars>>
    /\ UNCHANGED <<mounted, routeName, scrollPosition, debauncedValue, timers,
                   listeners, cache, received, mutations>>

\* an onClick that likes whatever the heart shows
ClickAlwaysLikes(tweet) == [action |-> "like", tweetId |-> tweet.id]

\* the onClick of the heart of a rendered tweet
ClickMutation(tweet) ==
    IF hasLiked(tweet)
    THEN [action |-> "unlike", tweetId |-> tweet.id]
    ELSE [action |-> "like", tweetId |-> tweet.id]

\* an onClick that patches the cache before the server has answered
ClickOptimistic(i) ==
    /\ i \in 1..Len(Rendered)
    /\ BagCardinality(mutations) < MaxMutations
    /\ mutations' = mutations (+) SetToBag({ClickMutation(Rendered[i])})
    /\ cache' = updateCache(cache, [tweetId |-> Rendered[i].id], [userId |-> "u1"],
                            ClickMutation(Rendered[i]).action)
    /\ UNCHANGED <<thrown, timeVars>>
    /\ UNCHANGED <<mounted, routeName, scrollPosition, debauncedValue, timers,
                   listeners, inflight, requests, received, failures>>

Click(i) ==
    /\ i \in 1..Len(Rendered)
    /\ BagCardinality(mutations) < MaxMutations
    /\ mutations' = mutations (+) SetToBag({ClickMutation(Rendered[i])})
    /\ UNCHANGED <<thrown, timeVars>>
    /\ UNCHANGED <<mounted, routeName, scrollPosition, debauncedValue, timers,
                   listeners, cache, inflight, requests, received, failures>>

\* a like or unlike mutation succeeds: onSuccess runs updateCache
MutationSuccess(m, userId) ==
    /\ BagIn(m, mutations)
    /\ mutations' = mutations (-) SetToBag({m})
    /\ LET c == updateCache(cache, [tweetId |-> m.tweetId],
                            [userId |-> userId], m.action)
       IN  /\ cache' = c
           /\ RenderAndEffect("patched", mounted, debauncedValue, c, inflight, requests)
    /\ thrown' = (thrown \/ updateCacheThrows(cache))
    /\ UNCHANGED timeVars
    /\ UNCHANGED <<mounted, routeName, scrollPosition, debauncedValue, timers,
                   listeners, received, failures>>

\* a like or unlike mutation fails: no onSuccess, no patch
MutationError(m) ==
    /\ BagIn(m, mutations)
    /\ mutations' = mutations (-) SetToBag({m})
    /\ UNCHANGED <<thrown, timeVars>>
    /\ UNCHANGED <<mounted, routeName, scrollPosition, debauncedValue, timers,
                   listeners, cache, inflight, requests, received, failures>>

\* a teardown whose cleanup forgets clearTimeout
UnmountKeepsTimer ==
    /\ mounted
    /\ mounted' = FALSE
    /\ listeners' = listeners - 1
    /\ UNCHANGED <<thrown, timeVars>>
    /\ UNCHANGED <<routeName, scrollPosition, debauncedValue, timers, cache,
                   inflight, requests, received, mutations, failures>>

\* the component is torn down: the effect cleanups clear the debounce
\* timer and remove the scroll listener, and the component's state is gone
\* (kept here at its initial value)
Unmount ==
    /\ mounted
    /\ mounted' = FALSE
    /\ timers' = {}
    /\ listeners' = listeners - 1
    /\ scrollPosition' = Number(0)
    /\ debauncedValue' = Number(0)
    /\ UNCHANGED <<thrown, timeVars>>
    /\ UNCHANGED <<routeName, cache, inflight, requests, received, mutations,
                   failures>>

\* the client drops the entry of a query nobody observes and nobody fetches
CacheGC ==
    /\ ~mounted
    /\ inflight = {}
    /\ TimelineKey \in DOMAIN cache
    /\ cache' = [k \in DOMAIN cache \ {TimelineKey} |-> cache[k]]
    /\ UNCHANGED <<thrown, timeVars>>
    /\ UNCHANGED <<mounted, routeName, scrollPosition, debauncedValue, timers,
                   listeners, inflight, requests, received, mutations, failures>>

Next ==
    \/ \E doc \in Documents, b \in {0} \cup ScrollTops, t \in {0} \cup ScrollTops :
          /\ (b = 0) # (t = 0)
          /\ b + t <= doc.scrollHeight - doc.clientHeight
          /\ Scroll(doc, b, t)
    \/ \E value \in timers : TimerFire(value)
    \/ \E ctx \in inflight : \E page \in ServerPages(ctx.pageParam) :
          FetchSuccess(ctx, page)
    \/ \E ctx \in inflight : FetchError(ctx)
    \/ \E i \in 1..Len(Rendered) : Click(i)
    \/ \E m \in BagToSet(mutations) : \E userId \in SessionUsers : MutationSuccess(m, userId)
    \/ \E m \in BagToSet(mutations) : MutationError(m)
    \/ Unmount
    \/ CacheGC

\* no timestamp is rendered in the runs of the page
TimeInit == createdAt = 0 /\ fromNowText = NotRendered

\* the page of the user "alice"
Init == InitWith(Names) /\ TimeInit
Spec == Init /\ [][Next]_vars

\* the page of any route parameter, an absent one included
InitAnyRoute == InitWith(Names \cup {Undefined}) /\ TimeInit
SpecAnyRoute == InitAnyRoute /\ [][Next]_vars

\* the key of a timeline query filtered by author, and the entry another
\* part of the application has cached under it
AuthorKey ==
    QueryKey([limit |-> TimelineLimit, where |-> [author |-> [name |-> "alice"]]])
AuthorEntry ==
    [pages |-> <<[tweets |-> <<Post(1)>>, nextCursor |-> TweetId(2)]>>,
     pageParams |-> <<Undefined>>]

\* the page of the user "alice", opened with the author's timeline cached
InitOtherEntries ==
    /\ mounted = TRUE
    /\ routeName \in Names
    /\ scrollPosition = Number(0)
    /\ debauncedValue = Number(0)
    /\ timers = ArmTimer({}, Number(0))
    /\ listeners = 1
    /\ cache = [k \in {AuthorKey} |-> AuthorEntry]
    /\ inflight = {[req |-> 1, cause |-> "mount", pageParam |-> Undefined,
                    oldPages |-> <<>>, oldPageParams |-> <<>>]}
    /\ requests = <<Request(Undefined)>>
    /\ received = <<>>
    /\ mutations = EmptyBag
    /\ failures = 0
    /\ thrown = FALSE
    /\ TimeInit
SpecOtherEntries == InitOtherEntries /\ [][Next]_vars

\* scroll events on a document of any size, at any offset from 0 to its
\* scrollable distance, reported by the body or by the document element
NextScroll ==
    \/ \E doc \in AnyDocuments :
       \E b, t \in 0..(doc.scrollHeight - doc.clientHeight) :
          /\ b = 0 \/ t = 0
          /\ Scroll(doc, b, t)
    \/ \E value \in timers : TimerFire(value)
SpecScroll == Init /\ [][NextScroll]_vars

\* the page left alone by its user but for scrolling: no heart is clicked,
\* and every page fetch is answered with a page in the end
NextLive ==
    \/ \E doc \in Documents, b \in {0} \cup ScrollTops, t \in {0} \cup ScrollTops :
          /\ (b = 0) # (t = 0)
          /\ b + t <= doc.scrollHeight - doc.clientHeight
          /\ Scroll(doc, b, t)
    \/ \E value \in timers : TimerFire(value)
    \/ \E ctx \in inflight : \E page \in ServerPages(ctx.pageParam) :
          FetchSuccess(ctx, page)
    \/ Unmount
FetchCompletes ==
    \E ctx \in inflight : \E page \in ServerPages(ctx.pageParam) :
        FetchSuccess(ctx, page)
SpecLive == Init /\ [][NextLive]_vars /\ WF_vars(FetchCompletes)

\* Tweet renders the relative time of its timestamp
RenderFromNow ==
    /\ fromNowText = NotRendered
    /\ fromNowText' = fromNow(createdAt)
    /\ UNCHANGED <<mounted, routeName, scrollPosition, debauncedValue, timers,
                   listeners, cache, inflight, requests, received, mutations,
                   failures, thrown, createdAt>>

\* a tweet of any timestamp is rendered
InitFromNow ==
    /\ InitWith(Names)
    /\ createdAt \in CreatedAts
    /\ fromNowText = NotRendered
NextFromNow == RenderFromNow
SpecFromNow == InitFromNow /\ [][NextFromNow]_vars

----------------------------------------------------------------------------
(* Properties *)

CachedPages == cache[PatchKey].pages
LastPage(c) == c[TimelineKey].pages[Len(c[TimelineKey].pages)]
Pending(reqs) == {i \in DOMAIN reqs : reqs[i].status = "pending"}
RequestIssued == Len(requests') > Len(requests)
Above == Percent(19, 20)
AtThreshold == Percent(18, 20)

RECURSIVE Concat(_)
Concat(pages) ==
    IF pages = <<>> THEN <<>> ELSE pages[1].tweetIds \o Concat(Tail(pages))

IdsOf(posts) == [j \in 1..Len(posts) |-> posts[j].id]

\* C1: when a like mutation on post p succeeds, updateCache leaves p's cached
\* liking-set equal to exactly the acting user's id, when an unlike mutation
\* on p succeeds it leaves it empty, and every post other than p, in every
\* cached page, is the same before and after the patch.
C1_PatchRewritesOnlyTarget ==
    [][\A m \in BagToSet(mutations) : \A u \in SessionUsers :
         (MutationSuccess(m, u) /\ PatchKey \in DOMAIN cache) =>
            /\ DOMAIN cache' = DOMAIN cache
            /\ \A k \in DOMAIN cache :
                 /\ Len(cache'[k].pages) = Len(cache[k].pages)
                 /\ \A i \in 1..Len(cache[k].pages) :
                      LET old == cache[k].pages[i].tweets
                          new == cache'[k].pages[i].tweets
                      IN  /\ Len(new) = Len(old)
                          /\ \A j \in 1..Len(old) :
                               IF old[j].id = m.tweetId
                               THEN new[j].likes =
                                      IF m.action = "like" THEN <<u>> ELSE <<>>
                               ELSE new[j] = old[j]]_vars

\* a patch has been applied (its pages carry no cursor field) to a cache of
\* two posts, one liked and one not
C1_Witness ==
    /\ PatchKey \in DOMAIN cache
    /\ \E i \in 1..Len(CachedPages) : "nextCursor" \notin DOMAIN CachedPages[i]
    /\ \E a, b \in 1..Len(tweets(cache, PatchKey)) :
         /\ tweets(cache, PatchKey)[a].likes = <<"u1">>
         /\ tweets(cache, PatchKey)[b].likes = <<>>

\* C2: a successful like/unlike patch leaves the number and order of the
\* cached pages and each page's next cursor as they were, so hasNextPage and
\* the end-of-feed indicator do not change because of it.
C2_PatchKeepsPages ==
    [][\A m \in BagToSet(mutations) : \A u \in SessionUsers :
         (MutationSuccess(m, u) /\ PatchKey \in DOMAIN cache) =>
            /\ Len(cache'[PatchKey].pages) = Len(CachedPages)
            /\ \A i \in 1..Len(CachedPages) :
                 getNextPageParam(cache'[PatchKey].pages[i])
                   = getNextPageParam(CachedPages[i])
            /\ hasNextPage(cache', TimelineKey) = hasNextPage(cache, TimelineKey)
            /\ ShowsNoMoreItems' = ShowsNoMoreItems]_vars

\* C3: a next-page request is issued only in a state where the debounced
\* scroll percentage is above 90, the last loaded page carries a next cursor
\* and no other fetch is in flight; and whenever a change leaves all three
\* true, the request for the page after the last one is issued.
C3_FetchExactlyWhenDue ==
    [][LET before == {ctx \in inflight' : ctx.req <= Len(requests)}
           due == /\ mounted'
                  /\ GreaterThan(debauncedValue', ScrollThreshold)
                  /\ hasNextPage(cache', TimelineKey)
                  /\ before = {}
           changed == \/ debauncedValue' # debauncedValue
                      \/ hasNextPage(cache', TimelineKey) # hasNextPage(cache, TimelineKey)
                      \/ isFetching(before) # isFetching(inflight)
       IN  /\ RequestIssued =>
                /\ due
                /\ Len(requests') = Len(requests) + 1
                /\ requests'[Len(requests')].pageParam = getNextPageParam(LastPage(cache'))
           /\ (due /\ changed) => RequestIssued]_vars

\* a next-page request is out, issued on a scroll position above 90
C3_Witness ==
    /\ mounted
    /\ Len(requests) >= 2
    /\ requests[Len(requests)].status = "pending"
    /\ requests[Len(requests)].pageParam # Undefined
    /\ debauncedValue = Above

C5_CompletionIssuesNoRequest ==
    [][(/\ \E ctx \in inflight :
             /\ ctx \notin inflight'
             /\ ctx.cause = "commit"
             /\ requests'[ctx.req].status = "success"
        /\ debauncedValue' = debauncedValue)
         => ~RequestIssued]_vars

\* C5, amended: a committed debounced value above 90, with a next cursor
\* cached and no fetch in flight, triggers exactly one next-page request at
\* the commit; and when a page fetch completes with a next cursor cached and
\* the debounced value still above 90, the effect runs again and issues
\* exactly one further request, though no further value was committed.
C5_OneRequestPerEvaluation ==
    [][/\ Len(requests') <= Len(requests) + 1
       /\ (/\ mounted'
           /\ debauncedValue' # debauncedValue
           /\ GreaterThan(debauncedValue', ScrollThreshold)
           /\ hasNextPage(cache, TimelineKey)
           /\ ~isFetching(inflight))
            => Len(requests') = Len(requests) + 1
       /\ (/\ mounted
           /\ \E ctx \in inflight : ctx \notin inflight'
           /\ debauncedValue' = debauncedValue
           /\ GreaterThan(debauncedValue, ScrollThreshold)
           /\ hasNextPage(cache', TimelineKey))
            => Len(requests') = Len(requests) + 1]_vars

\* the second page has arrived and the third is requested, with the value
\* 95 committed and no timer pending
C5_Witness ==
    /\ mounted
    /\ Len(requests) = 3
    /\ requests[2].status = "success"
    /\ requests[3].status = "pending"
    /\ \E ctx \in inflight : ctx.req = 3 /\ ctx.cause = "fetched"
    /\ debauncedValue = Above
    /\ scrollPosition = Above
    /\ timers = {}

\* C6: the debounced value changes only when the timer armed by the latest
\* raw value expires; every new raw value cancels the pending timer and arms
\* its own, so at most one timer is pending, it holds the latest raw value,
\* and a committed value is the latest raw value observed.
C6_DebounceCommitsLatest ==
    [][mounted' =>
         /\ (debauncedValue' # debauncedValue) =>
                /\ timers = {debauncedValue'}
                /\ debauncedValue' = scrollPosition
                /\ scrollPosition' = scrollPosition
                /\ timers' = {}
         /\ (scrollPosition' # scrollPosition) => timers' = {scrollPosition'}
         /\ Cardinality(timers') <= 1
         /\ \A v \in timers' : v = scrollPosition']_vars

\* 95 was committed, then the raw value moved to 90 and its timer is pending
C6_Witness ==
    /\ mounted
    /\ debauncedValue = Above
    /\ scrollPosition = AtThreshold
    /\ timers = {AtThreshold}

\* C7: the rendered sequence of posts is the concatenation of the fetched
\* pages' posts, pages in the order they arrived and posts in the order
\* received: none dropped, duplicated or reordered.
C7_RenderedIsConcatenation ==
    mounted => IdsOf(Rendered) = Concat(received)

\* two pages with posts have arrived and are on screen
C7_Witness ==
    /\ mounted
    /\ Len(received) >= 2
    /\ received[1].tweetIds # <<>>
    /\ received[2].tweetIds # <<>>
    /\ Len(Rendered) >= 2

\* C8: the "No more items to load" indicator is shown only when a page with
\* no next cursor has arrived as the last page: not before the first page
\* has arrived nor while the last page that arrived carried a next cursor.
C8_IndicatorOnlyAtEnd ==
    ShowsNoMoreItems =>
        /\ received # <<>>
        /\ received[Len(received)].nextCursor = Undefined

\* C9: the page of route parameter name = n makes Timeline issue its
\* timeline query with the filter where: {author: {name: n}}, an absent
\* name passed through as undefined.
C9_QueryFilteredByAuthor ==
    \A i \in DOMAIN requests :
        requests[i].input =
            [limit |-> TimelineLimit, where |-> [author |-> [name |-> routeName]]]

\* C10: for every rendered post the like icon is red if and only if the
\* post's cached liking-user set is non-empty, and gray if and only if it is
\* empty.
C10_HeartColorFollowsLikes ==
    \A i \in 1..Len(Rendered) :
        /\ HeartColor(Rendered[i]) = "red" <=> Rendered[i].likes # <<>>
        /\ HeartColor(Rendered[i]) = "gray" <=> Rendered[i].likes = <<>>

\* a liked and an unliked post are on screen
C10_Witness ==
    \E a, b \in 1..Len(Rendered) :
        /\ Rendered[a].likes # <<>>
        /\ Rendered[b].likes = <<>>

\* C11 as stated: an age under one minute renders "1m ago"; n minutes past
\* renders "{n}m ago"; 2 hours past "2h ago"; 3 days past "3d ago"; 5 minutes
\* ahead "in 5m".
C11_MinutesRenderAsMinutes ==
    fromNowText # NotRendered =>
        /\ (createdAt <= 0 /\ createdAt > 0 - 60) => fromNowText = "1m ago"
        /\ \A n \in 1..59 :
             createdAt = 0 - 60 * n => fromNowText = ToString(n) \o "m ago"
        /\ createdAt = 0 - 2 * 3600 => fromNowText = "2h ago"
        /\ createdAt = 0 - 3 * 86400 => fromNowText = "3d ago"
        /\ createdAt = 5 * 60 => fromNowText = "in 5m"

\* the count and unit the text must carry for an age of a seconds
C11_Out(a) ==
    IF a < 90 THEN {"1m"}
    ELSE IF 2 * a < 89 * 60 THEN
        {ToString(n) \o "m" : n \in {k \in 2..44 :
                                       120 * k - 60 <= 2 * a /\ 2 * a < 120 * k + 60}}
    ELSE IF 2 * a < 3 * 3600 THEN {"1h"}
    ELSE IF 2 * a < 43 * 3600 THEN
        {ToString(n) \o "h" : n \in {k \in 2..21 :
                                       7200 * k - 3600 <= 2 * a /\ 2 * a < 7200 * k + 3600}}
    ELSE IF 2 * a < 3 * 86400 THEN {"1d"}
    ELSE {ToString(n) \o "d" : n \in {k \in 2..25 :
                                        172800 * k - 86400 <= 2 * a
                                        /\ 2 * a < 172800 * k + 86400}}

\* C11, amended: an age under 90 seconds renders "1m ago", never a seconds
\* value; an age that rounds to n minutes, n from 2 to 44, renders
\* "{n}m ago"; an age from 44.5 minutes to under 1.5 hours renders "1h ago";
\* an age that rounds to n hours, n from 2 to 21, renders "{n}h ago"; an age
\* from 21.5 hours to under 1.5 days renders "1d ago"; an age that rounds to
\* n days, n from 2 to 25, renders "{n}d ago"; a future timestamp renders
\* the same count and unit as "in ...".
C11_FromNowFollowsThresholds ==
    fromNowText # NotRendered =>
        /\ \E out \in C11_Out(Abs(createdAt)) :
              fromNowText = IF createdAt > 0 THEN "in " \o out ELSE out \o " ago"
        /\ createdAt = 0 - 45 => fromNowText = "1m ago"
        /\ createdAt = 0 - 5 * 60 => fromNowText = "5m ago"
        /\ createdAt = 0 - 2 * 3600 => fromNowText = "2h ago"
        /\ createdAt = 0 - 3 * 86400 => fromNowText = "3d ago"
        /\ createdAt = 5 * 60 => fromNowText = "in 5m"

\* a timestamp 45 minutes in the past has been rendered, as one hour
C11_Witness ==
    /\ createdAt = 0 - 45 * 60
    /\ fromNowText = "1h ago"

\* C12: clicking a post's heart issues exactly one mutation carrying that
\* post's identifier: an unlike mutation if the post's cached liking-set is
\* non-empty at the time of the click, a like mutation otherwise; never both
\* and never a mutation for another post.
C12_ClickIssuesOneMutation ==
    [][/\ BagCardinality(mutations') <= BagCardinality(mutations) + 1
       /\ \A i \in 1..Len(Rendered) :
            Click(i) =>
               LET post == tweets(cache, TimelineKey)[i]
                   issued == [action |-> IF post.likes # <<>> THEN "unlike" ELSE "like",
                              tweetId |-> post.id]
               IN  /\ mutations' = mutations (+) SetToBag({issued})
                   /\ BagCardinality(mutations') = BagCardinality(mutations) + 1
       /\ BagCardinality(mutations') > BagCardinality(mutations) =>
            \E i \in 1..Len(tweets(cache, TimelineKey)) :
               LET post == tweets(cache, TimelineKey)[i]
               IN  \A m \in BagToSet(mutations') :
                      CopiesIn(m, mutations') > CopiesIn(m, mutations) =>
                         /\ m.tweetId = post.id
                         /\ m.action = "unlike" <=> post.likes # <<>>
                         /\ m.action = "like" <=> post.likes = <<>>]_vars

\* the heart of a post the cache holds as liked was clicked: its unlike
\* mutation is in flight
C12_Witness ==
    /\ mounted
    /\ \E i \in 1..Len(Rendered) :
         /\ Rendered[i].likes # <<>>
         /\ BagIn([action |-> "unlike", tweetId |-> Rendered[i].id], mutations)

\* C13: the cache is patched pessimistically: a click leaves the cached
\* timeline (and so what is rendered) unchanged, nothing changes it between
\* the click and the success of the mutation but the arrival of a page, and
\* a mutation that fails leaves the cached timeline exactly as it was.
C13_PatchOnlyOnSuccess ==
    [][/\ \A i \in 1..Len(Rendered) :
            Click(i) => (cache' = cache /\ Rendered' = Rendered)
       /\ \A m \in BagToSet(mutations) :
            MutationError(m) => (cache' = cache /\ Rendered' = Rendered)
       /\ BagCardinality(mutations') > BagCardinality(mutations) => cache' = cache
       /\ cache' # cache =>
            \/ Len(received') > Len(received)
            \/ BagCardinality(mutations') < BagCardinality(mutations)
            \/ (~mounted /\ cache' = EmptyCache)]_vars

\* the heart of an unliked post was clicked and its like mutation is in
\* flight: the post is still shown as unliked
C13_Witness ==
    /\ mounted
    /\ \E i \in 1..Len(Rendered) :
         /\ Rendered[i].likes = <<>>
         /\ HeartColor(Rendered[i]) = "gray"
         /\ BagIn([action |-> "like", tweetId |-> Rendered[i].id], mutations)

\* C14: a like/unlike success whose target post is absent from the cached
\* pages is a no-op that raises no error: the cached timeline entry (posts,
\* pages, cursors) is identical before and after, also when the cache holds
\* no entry at all under the patched key.
C14_AbsentTargetIsNoOp ==
    /\ ~thrown
    /\ \A action \in {"like", "unlike"} :
         LET absent == [tweetId |-> "t0"]
         IN  (/\ ~updateCacheThrows(cache)
              /\ \A i \in 1..Len(tweets(cache, PatchKey)) :
                    tweets(cache, PatchKey)[i].id # absent.tweetId)
               => updateCache(cache, absent, [userId |-> "u1"], action) = cache

\* C15: updateCache writes only the cache entry keyed by (tweet.timeline,
\* input {limit: 10}, type infinite): every entry under any other key, the
\* entry of an author-filtered timeline in particular, is unchanged by any
\* like or unlike success.
C15_PatchWritesOneKey ==
    [][\A m \in BagToSet(mutations) : \A u \in SessionUsers :
         MutationSuccess(m, u) =>
            /\ DOMAIN cache' = DOMAIN cache
            /\ \A k \in DOMAIN cache : k # PatchKey => cache'[k] = cache[k]
            /\ AuthorKey \in DOMAIN cache' /\ cache'[AuthorKey] = AuthorEntry]_vars

\* the like of t1 has been patched into the entry of the unfiltered
\* timeline while the author's entry still holds t1 as unliked
C15_Witness ==
    /\ PatchKey \in DOMAIN cache
    /\ AuthorKey \in DOMAIN cache
    /\ \E i \in 1..Len(tweets(cache, PatchKey)) :
         /\ tweets(cache, PatchKey)[i].id = TweetId(1)
         /\ tweets(cache, PatchKey)[i].likes = <<"u1">>
    /\ tweets(cache, AuthorKey)[1].id = TweetId(1)
    /\ tweets(cache, AuthorKey)[1].likes = <<>>

\* C16: a like/unlike patch and a page fetch never lose each other's update:
\* when a next-page fetch completes, the cache holds the newly fetched page
\* and every post cached before still has the liking-set it had, a set
\* patched while the fetch was in flight included.
C16_FetchKeepsPatch ==
    [][(Len(received') > Len(received) /\ TimelineKey \in DOMAIN cache) =>
          LET old  == tweets(cache, TimelineKey)
              new  == tweets(cache', TimelineKey)
              page == received'[Len(received')].tweetIds
          IN  /\ Len(new) = Len(old) + Len(page)
              /\ \A i \in 1..Len(page) : new[Len(old) + i].id = page[i]
              /\ \A i \in 1..Len(old) : new[i] = old[i]]_vars

\* C17: the scroll listener and the debounce timer are released with the
\* component: while mounted exactly one scroll listener is registered; after
\* teardown none is and no timer is pending, so no scroll event updates the
\* raw scroll position, no pending value is committed and no next-page
\* request is issued.
C17_ReleasedWithComponent ==
    /\ [](/\ mounted => listeners = 1
          /\ ~mounted => (listeners = 0 /\ timers = {}))
    /\ [][~mounted =>
            /\ ~mounted'
            /\ scrollPosition' = scrollPosition
            /\ debauncedValue' = debauncedValue
            /\ timers' = {}
            /\ ~RequestIssued
            /\ inflight' \subseteq inflight]_vars

\* the view was torn down while the fetch of the second page was in flight;
\* the page has arrived with a next cursor and nothing is requested
C17_Witness ==
    /\ ~mounted
    /\ listeners = 0
    /\ timers = {}
    /\ Len(received) = 2
    /\ hasNextPage(cache, TimelineKey)
    /\ inflight = {}
    /\ \A i \in DOMAIN requests : requests[i].status = "success"

\* C18: the scroll position computed by handleScroll is always a defined
\* percentage in the range 0 to 100, for every scroll offset between 0 and
\* the scrollable distance and every document size, a document whose full
\* height equals the viewport height included.
C18_ScrollPositionIsPercentage ==
    /\ scrollPosition # NaN
    /\ scrollPosition[2] > 0
    /\ 0 <= scrollPosition[1]
    /\ scrollPosition[1] <= 100 * scrollPosition[2]

\* C19: pagination makes progress to the end of the feed: if the view stays
\* mounted with the debounced scroll percentage above 90, no like or unlike
\* occurs and every issued fetch completes successfully, then eventually
\* every page has been loaded (the last page that arrived has no next
\* cursor and all posts received are on screen), no request is outstanding
\* or issued any more, and the end-of-feed indicator is shown.
C19_ReachesEndOfFeed ==
    <>[](mounted /\ GreaterThan(debauncedValue, ScrollThreshold))
      => <>[](/\ received # <<>>
              /\ received[Len(received)].nextCursor = Undefined
              /\ IdsOf(Rendered) = Concat(received)
              /\ inflight = {}
              /\ Pending(requests) = {}
              /\ ~hasNextPage(cache, TimelineKey)
              /\ ShowsNoMoreItems)

\* with 95 committed, three pages were fetched one after the other, the
\* last one ends the feed and the indicator is shown
C19_Witness ==
    /\ mounted
    /\ debauncedValue = Above
    /\ Len(received) = 3
    /\ received[3].nextCursor = Undefined
    /\ \A i \in DOMAIN requests : requests[i].status = "success"
    /\ inflight = {}
    /\ ShowsNoMoreItems

====
